---------------------------- MODULE Spec2Model ----------------------------
(***************************************************************************)
(* Landslide and flood prediction service: the gateway (/predict,          *)
(* /history, /health), the ModelLoader singleton, the external data        *)
(* adapters and the predictions collection.                                *)
(*                                                                         *)
(* Units.  Python floats are modelled as integers: probabilities in        *)
(* hundredths (0.3 is 30, 0.7 is 70), soil_ph, ndvi and soil saturation in *)
(* tenths (6.5 is 65), every other quantity in its own unit.  Python's None, where a      *)
(* number is expected, is the value None below; every real number of the   *)
(* model is >= 0.                                                          *)
(***************************************************************************)
EXTENDS Integers, Sequences, FiniteSets, TLC

VARIABLES
    phase,          \* "import" | "startup" | "serving": the process's life
    loader,         \* ModelLoader._instance and the instance's attributes
    returned,       \* the ModelLoader() constructions so far: the object each
                    \* returned and whether the models were loaded by then
    deserialized,   \* per artifact, how many times joblib.load returned it
    loadLog,        \* the load_models calls so far: whether _loaded held at the
                    \* call and the artifacts joblib.load returned during it
    lastResult,     \* result of the latest direct call of a prediction entry
                    \* point, and what /health would have reported at the call
    req,            \* per request: position in predict() and its locals
    tasks,          \* background tasks added and not yet started (response_data dicts)
    saving,         \* save_prediction_mongo coroutines between doc and insert
    collection,     \* db.predictions, in insertion order
    history,        \* the latest GET /history answer
    historyAt,      \* Len(collection) when that answer was computed
    now,            \* the latest datetime.utcnow() reading
    budget,         \* provider calls of one request that may deviate in this run
    health,         \* the latest GET /health answer
    dash            \* the dashboard script: its position, what it requested
                    \* and what it shows

vars == <<phase, loader, returned, deserialized, loadLog, lastResult,
          req, tasks, saving, collection, history, historyAt, now, budget,
          health, dash>>

---------------------------------------------------------------------------
(* Bounds of the model *)

\* provider calls of one request whose outcome may differ from the nominal one
MaxDeviations == 1
\* the clock is read at most up to this value
MaxClock == 2
\* load_models calls in the loader specification
MaxLoadCalls == 3
\* ModelLoader() constructions in the loader specification
MaxConstructions == 3
\* clicks on the dashboard's map
MaxClicks == 2

---------------------------------------------------------------------------
(* Program constants *)

None == 0 - 1

\* determine_risk_level: prob < 0.3, prob < 0.7
LOW_BELOW == 30
MEDIUM_BELOW == 70
\* get_history: .limit(50), to_list(length=50)
HISTORY_LIMIT == 50
\* predict: "soil_ph": 6.5 and "ndvi": 0.5
SOIL_PH == 65
NDVI == 5
\* predict: hydro.get("soil_saturation", 0.5) for the flood features,
\* hydro.get("soil_saturation", 0.0) for the response
SOIL_SATURATION_FEATURE_DEFAULT == 5
SOIL_SATURATION_RESPONSE_DEFAULT == 0
\* predict: hydro.get("flow_accumulation", 0.0), hydro.get("river_distance", 1000.0)
FLOW_ACCUMULATION_DEFAULT == 0
RIVER_DISTANCE_DEFAULT == 1000
\* get_ee_river_distance: 1 pixel ~ 460 m; 5000.0 fallback
PIXEL_METERS == 460
RIVER_FALLBACK == 5000

Max(a, b) == IF a >= b THEN a ELSE b

\* d.get(key, default)
DictGet(d, key, default) == IF key \in DOMAIN d THEN d[key] ELSE default

---------------------------------------------------------------------------
(* Provider calls.  One HTTP/SDK call ends in an outcome: it raises, or it  *)
(* answers; an answer carries the value the adapter reads from it (None    *)
(* when the key is null or absent and the code reads it with .get(key)).   *)

Raise == [k |-> "raise", v |-> None]
Ok(x) == [k |-> "ok", v |-> x]
\* the key is absent and the code reads it with a default
Missing == [k |-> "missing", v |-> None]
\* get_weather_data: response.status_code # 200 with a JSON body
Non200 == [k |-> "non200", v |-> None]
\* get_ee_river_distance: the second reduceRegion answers an empty dict
EmptyDict == [k |-> "empty", v |-> None]

\* what each provider answers at the requested point when all is well
NominalWeather == Ok(2)
NominalElevation == Ok(100)
NominalSlope == Ok(31)
NominalGpm == Ok(30)
NominalDischarge == Ok(3)
NominalSoil == Ok(4)
NominalFlowAcc == Ok(7)
NominalDistance == Ok(9)
NominalGeocode == [k |-> "ok", v |-> "Somewhere"]

WeatherOutcomes == {NominalWeather, Raise, Non200, Missing}
ElevationOutcomes == {NominalElevation, Raise, Ok(None)}
SlopeOutcomes == {NominalSlope, Raise, Ok(None)}
GpmOutcomes == {NominalGpm, Raise, Ok(None), Ok(0)}
DischargeOutcomes == {NominalDischarge, Raise, Ok(None), Missing}
SoilOutcomes == {NominalSoil, Raise, Ok(None), Missing}
FlowAccOutcomes == {NominalFlowAcc, Raise, Ok(None), Missing}
DistanceOutcomes == {NominalDistance, Raise, Ok(None)}
Distance2Outcomes == {NominalDistance, Raise, Ok(None), EmptyDict}
GeocodeOutcomes == {NominalGeocode, [k |-> "raise", v |-> ""], [k |-> "none", v |-> ""]}

Dev(o, nominal) == IF o = nominal THEN 0 ELSE 1

\* how a call ended: it raised, it answered a status other than 200, it
\* answered without the value read ("none"), or it answered the value
Kind(o) ==
    IF o.k \in {"raise", "non200"} THEN o.k
    ELSE IF o.k \in {"missing", "empty", "none"} THEN "none"
    ELSE IF o.v = None THEN "none"
    ELSE "value"
KindOfName(o) == IF o.k = "ok" THEN "value" ELSE o.k

\* what an adapter hands back: the value returned, whether an exception left
\* the adapter instead, the provider calls made, and how many of them deviated
Returns(x, n, d) == [value |-> x, raised |-> FALSE, calls |-> n, dev |-> d]
Propagates(x, n, d) == [value |-> x, raised |-> TRUE, calls |-> n, dev |-> d]

---------------------------------------------------------------------------
(* External data adapters (weather_service.py, endpoints.py).  Each takes   *)
(* the outcomes of the provider calls it may make, in call order; an        *)
(* outcome of a call that is not made is not read.                          *)

\* variant: the slope lookup moved out of the try block
get_elevation_slope_unguarded(o1, o2) ==
    IF o1.k = "raise"
    THEN Returns(<<0, 0>>, 1, Dev(o1, NominalElevation))
    ELSE IF o2.k = "raise"
         THEN Propagates(<<0, 0>>, 2, Dev(o1, NominalElevation) + Dev(o2, NominalSlope))
         ELSE Returns(<<o1.v, o2.v>>, 2,
                      Dev(o1, NominalElevation) + Dev(o2, NominalSlope))

\* try: elevation = ...getInfo().get("elevation"); slope = ...getInfo().get("slope")
\* except: return 0.0, 0.0
get_elevation_slope(o1, o2) ==
    IF o1.k = "raise"
    THEN Returns(<<0, 0>>, 1, Dev(o1, NominalElevation))
    ELSE IF o2.k = "raise"
         THEN Returns(<<0, 0>>, 2, Dev(o1, NominalElevation) + Dev(o2, NominalSlope))
         ELSE Returns(<<o1.v, o2.v>>, 2,
                      Dev(o1, NominalElevation) + Dev(o2, NominalSlope))

\* return precip_value if precip_value else 0.0  (None and 0 are both falsy)
get_rainfall_gpm(o) ==
    IF o.k = "raise"
    THEN Returns(0, 1, Dev(o, NominalGpm))
    ELSE Returns(IF o.v = None \/ o.v = 0 THEN 0 ELSE o.v, 1, Dev(o, NominalGpm))

\* two requests.get: the flood API for discharge, the forecast API for soil moisture
get_open_meteo_flood_data(o1, o2) ==
    LET fallback == [river_discharge |-> 0, soil_moisture |-> 0]
        read1 == IF o1.k = "missing" THEN 0 ELSE o1.v
        discharge == IF read1 = None THEN 0 ELSE read1
        soil_moisture == IF o2.k = "missing" THEN 0 ELSE o2.v
        d1 == Dev(o1, NominalDischarge)
        d2 == Dev(o2, NominalSoil)
    IN  IF o1.k = "raise"
        THEN Returns(fallback, 1, d1)
        ELSE IF o2.k = "raise"
             THEN Returns(fallback, 2, d1 + d2)
             ELSE Returns([river_discharge |-> discharge,
                           soil_moisture |-> soil_moisture], 2, d1 + d2)

\* variant: the second getInfo() made whether or not the first gave a value
get_ee_river_distance_twice(o1, o2) ==
    LET d1 == Dev(o1, NominalDistance)
        d2 == Dev(o2, NominalDistance)
        second == IF o2.k = "empty" THEN None ELSE o2.v
        distance_val == IF o1.v # None THEN o1.v ELSE second
    IN  IF o1.k = "raise"
        THEN Returns(RIVER_FALLBACK, 1, d1)
        ELSE IF o2.k = "raise"
             THEN Returns(RIVER_FALLBACK, 2, d1 + d2)
             ELSE IF distance_val # None
                  THEN Returns(distance_val * PIXEL_METERS, 2, d1 + d2)
                  ELSE Returns(RIVER_FALLBACK, 2, d1 + d2)

\* one reduceRegion(...).getInfo().get("distance"); a second getInfo() when
\* that is None; float(distance_val) * 460.0, or 5000.0
get_ee_river_distance(o1, o2) ==
    LET d1 == Dev(o1, NominalDistance)
        d2 == Dev(o2, NominalDistance)
        second == IF o2.k = "empty" THEN None ELSE o2.v
    IN  IF o1.k = "raise"
        THEN Returns(RIVER_FALLBACK, 1, d1)
        ELSE IF o1.v # None
             THEN Returns(o1.v * PIXEL_METERS, 1, d1)
             ELSE IF o2.k = "raise"
                  THEN Returns(RIVER_FALLBACK, 2, d1 + d2)
                  ELSE IF second # None
                       THEN Returns(second * PIXEL_METERS, 2, d1 + d2)
                       ELSE Returns(RIVER_FALLBACK, 2, d1 + d2)

\* variant: the dict returned without its "soil_saturation" key
get_hydrological_features_nosoil(om1, om2, fl, ds1, ds2) ==
    LET om == get_open_meteo_flood_data(om1, om2)
        om_data == om.value
        final_flow ==
            IF fl.k = "raise"
            THEN IF om_data.river_discharge > 0
                 THEN om_data.river_discharge * 100
                 ELSE 0
            ELSE IF fl.k = "missing" THEN 0
                 ELSE IF fl.v # None THEN fl.v ELSE 0
        dist == get_ee_river_distance(ds1, ds2)
    IN  [value |-> [flow_accumulation |-> final_flow,
                    river_distance |-> dist.value],
         raised |-> om.raised \/ dist.raised,
         calls |-> om.calls + 1 + dist.calls,
         dev |-> om.dev + Dev(fl, NominalFlowAcc) + dist.dev,
         om_calls |-> om.calls,
         dist_calls |-> dist.calls]

\* om: the two Open-Meteo outcomes, fl: the HydroSHEDS flow accumulation
\* outcome, ds: the two river distance outcomes
get_hydrological_features(om1, om2, fl, ds1, ds2) ==
    LET om == get_open_meteo_flood_data(om1, om2)
        om_data == om.value
        final_soil == om_data.soil_moisture
        final_flow ==
            IF fl.k = "raise"
            THEN IF om_data.river_discharge > 0
                 THEN om_data.river_discharge * 100
                 ELSE 0
            ELSE IF fl.k = "missing" THEN 0
                 ELSE IF fl.v # None THEN fl.v ELSE 0
        dist == get_ee_river_distance(ds1, ds2)
    IN  [value |-> [flow_accumulation |-> final_flow,
                    river_distance |-> dist.value,
                    soil_saturation |-> final_soil],
         raised |-> om.raised \/ dist.raised,
         calls |-> om.calls + 1 + dist.calls,
         dev |-> om.dev + Dev(fl, NominalFlowAcc) + dist.dev,
         om_calls |-> om.calls,
         dist_calls |-> dist.calls]

WeatherRecord(humidity, pressure, temperature, desc, icon, wind, rain) ==
    [humidity |-> humidity, pressure |-> pressure, temperature |-> temperature,
     weather_desc |-> desc, weather_icon |-> icon, wind_speed |-> wind,
     rainfall_1h |-> rain]

\* one requests.get; status 200: the parsed record; otherwise, or on an
\* exception, the all-zero record
get_weather_data(o) ==
    LET d == Dev(o, NominalWeather)
    IN  IF o.k = "raise"
        THEN Returns(WeatherRecord(0, 0, 0, "Error", "", 0, 0), 1, d)
        ELSE IF o.k = "non200"
             THEN Returns(WeatherRecord(0, 0, 0, "N/A", "", 0, 0), 1, d)
             ELSE Returns(WeatherRecord(80, 1010, 25, "light rain", "10d", 3,
                                        IF o.k = "missing" THEN 0 ELSE o.v), 1, d)

\* return location.address if location else "Unknown Location"
get_location_name(o) ==
    IF o.k = "ok"
    THEN Returns(o.v, 1, Dev(o, NominalGeocode))
    ELSE Returns("Unknown Location", 1, Dev(o, NominalGeocode))

---------------------------------------------------------------------------
(* ModelLoader (model_loader.py) *)

\* the class before any construction: _instance = None
NoInstance ==
    [instance |-> 0, landslide_model |-> "None", flood_model |-> "None",
     threshold |-> "None", _loaded |-> FALSE]

\* variant: __new__ without the "_instance is None" test
ModelLoader_new_fresh(l) ==
    [instance |-> l.instance + 1, landslide_model |-> "None",
     flood_model |-> "None", threshold |-> "None", _loaded |-> FALSE]

\* __new__: the first construction makes object 1 and initialises its
\* attributes; every construction returns cls._instance
ModelLoader_new(l) ==
    IF l.instance = 0
    THEN [instance |-> 1, landslide_model |-> "None", flood_model |-> "None",
          threshold |-> "None", _loaded |-> FALSE]
    ELSE l

\* variant: load_models without the "if self._loaded: return" guard
load_models_unguarded(l, failAt) ==
    IF failAt = 1
    THEN [loader |-> l, loads |-> <<>>]
    ELSE IF failAt = 2
    THEN [loader |-> [l EXCEPT !.landslide_model = "landslide_xgb"],
          loads |-> <<"landslide">>]
    ELSE IF failAt = 3
    THEN [loader |-> [l EXCEPT !.landslide_model = "landslide_xgb",
                               !.flood_model = "flood_model_v2_final"],
          loads |-> <<"landslide", "flood">>]
    ELSE [loader |-> [l EXCEPT !.landslide_model = "landslide_xgb",
                               !.flood_model = "flood_model_v2_final",
                               !.threshold = "threshold",
                               !._loaded = TRUE],
          loads |-> <<"landslide", "flood", "threshold">>]

\* variant: self._loaded = True set before the threshold is loaded
load_models_flag_early(l, failAt) ==
    IF l._loaded
    THEN [loader |-> l, loads |-> <<>>]
    ELSE IF failAt = 1
    THEN [loader |-> l, loads |-> <<>>]
    ELSE IF failAt = 2
    THEN [loader |-> [l EXCEPT !.landslide_model = "landslide_xgb"],
          loads |-> <<"landslide">>]
    ELSE IF failAt = 3
    THEN [loader |-> [l EXCEPT !.landslide_model = "landslide_xgb",
                               !.flood_model = "flood_model_v2_final",
                               !._loaded = TRUE],
          loads |-> <<"landslide", "flood">>]
    ELSE [loader |-> [l EXCEPT !.landslide_model = "landslide_xgb",
                               !.flood_model = "flood_model_v2_final",
                               !.threshold = "threshold",
                               !._loaded = TRUE],
          loads |-> <<"landslide", "flood", "threshold">>]

\* joblib.load of the three artifacts in order; failAt = 0: none raises,
\* failAt = i: the i-th raises.  loads: the artifacts joblib.load returned.
load_models(l, failAt) ==
    IF l._loaded
    THEN [loader |-> l, loads |-> <<>>]
    ELSE IF failAt = 1
    THEN [loader |-> l, loads |-> <<>>]
    ELSE IF failAt = 2
    THEN [loader |-> [l EXCEPT !.landslide_model = "landslide_xgb"],
          loads |-> <<"landslide">>]
    ELSE IF failAt = 3
    THEN [loader |-> [l EXCEPT !.landslide_model = "landslide_xgb",
                               !.flood_model = "flood_model_v2_final"],
          loads |-> <<"landslide", "flood">>]
    ELSE [loader |-> [l EXCEPT !.landslide_model = "landslide_xgb",
                               !.flood_model = "flood_model_v2_final",
                               !.threshold = "threshold",
                               !._loaded = TRUE],
          loads |-> <<"landslide", "flood", "threshold">>]

LoadOutcomes == 0 .. 3

\* a features dict: a sequence of <<key, value>> in insertion order
Keys(features) == {features[i][1] : i \in 1 .. Len(features)}
Get(features, key) ==
    LET i == CHOOSE j \in 1 .. Len(features) : features[j][1] = key
    IN  features[i][2]

\* variant: the frame passed on without df = df[feature_order]
Reorder_asgiven(features, feature_order) == features

\* pd.DataFrame([features])[feature_order]: the columns named, in that order
Reorder(features, feature_order) ==
    [i \in 1 .. Len(feature_order) |->
        <<feature_order[i], Get(features, feature_order[i])>>]

LANDSLIDE_ORDER == <<"elevation", "rainfall", "soil_ph", "slope">>
FLOOD_ORDER ==
    <<"lat", "lon", "rain_24h", "rain_72h", "soil_saturation", "elevation",
      "slope", "flow_accumulation", "river_distance">>

\* what a model does with the frame it is given: it raises, or it answers
\* a probability (and, for predict, a class)
ModelRaises == [k |-> "raise", p |-> 0, pred |-> "0"]
Proba(p) == [k |-> "ok", p |-> p, pred |-> IF p >= 50 THEN "1" ELSE "0"]
Probs == {29, 30, 69, 70}
ModelOutcomes == {ModelRaises} \cup {Proba(p) : p \in Probs}

Pair(a, b) == [shape |-> "pair", first |-> a, second |-> b]
Number(a) == [shape |-> "number", first |-> a, second |-> ""]

\* value: what the entry point returns; presented: the frame the model was
\* given (<<>> when no model was called)
predict_landslide(l, features, out) ==
    IF l.landslide_model = "None"
    THEN [value |-> Pair(0, "Model not loaded"), presented |-> <<>>]
    ELSE IF ~({LANDSLIDE_ORDER[i] : i \in 1 .. Len(LANDSLIDE_ORDER)} \subseteq Keys(features))
    THEN [value |-> Pair(0, "0"), presented |-> <<>>]
    ELSE IF out.k = "raise"
    THEN [value |-> Pair(0, "0"), presented |-> Reorder(features, LANDSLIDE_ORDER)]
    ELSE [value |-> Pair(out.p, out.pred),
          presented |-> Reorder(features, LANDSLIDE_ORDER)]

predict_flood(l, features, out) ==
    IF l.flood_model = "None"
    THEN [value |-> Pair(0, "Model not loaded"), presented |-> <<>>]
    ELSE IF ~({FLOOD_ORDER[i] : i \in 1 .. Len(FLOOD_ORDER)} \subseteq Keys(features))
    THEN [value |-> Number(0), presented |-> <<>>]
    ELSE IF out.k = "raise"
    THEN [value |-> Number(0), presented |-> Reorder(features, FLOOD_ORDER)]
    ELSE [value |-> Number(out.p), presented |-> Reorder(features, FLOOD_ORDER)]

---------------------------------------------------------------------------
(* Gateway helpers (endpoints.py, schemas.py, db/models.py) *)

\* variant: <= where the code has <
determine_risk_level_le(prob) ==
    IF prob <= LOW_BELOW THEN "Low"
    ELSE IF prob <= MEDIUM_BELOW THEN "Medium"
    ELSE "High"

determine_risk_level(prob) ==
    IF prob < LOW_BELOW THEN "Low"
    ELSE IF prob < MEDIUM_BELOW THEN "Medium"
    ELSE "High"

\* PredictionResponse: every float field holds a number (None is refused)
ResponseFloatFields ==
    {"lat", "lon", "rainfall_1h", "rainfall_24h", "rainfall_72h",
     "soil_saturation", "flow_accumulation", "river_distance", "soil_ph",
     "temperature", "wind_speed", "humidity", "pressure", "elevation",
     "slope", "ndvi", "landslide_probability", "flood_probability"}
ValidResponse(data) == \A f \in ResponseFloatFields : data[f] # None

\* PredictionDocument: lat, lon, rainfall_24h, slope, landslide_prob,
\* flood_prob are floats
ValidDocument(data) ==
    /\ data.lat # None /\ data.lon # None
    /\ data.rainfall_24h # None /\ data.slope # None
    /\ data.landslide_probability # None /\ data.flood_probability # None

PredictionDocument(data, timestamp) ==
    [lat |-> data.lat, lon |-> data.lon,
     location_name |-> data.location_name,
     rainfall_24h |-> data.rainfall_24h, slope |-> data.slope,
     landslide_prob |-> data.landslide_probability,
     flood_prob |-> data.flood_probability,
     risk_level |-> data.landslide_risk_level,
     timestamp |-> timestamp]

\* insert_one(doc.dict()): the collection gives the document its _id
Stored(doc, id) ==
    [f \in DOMAIN doc \cup {"_id"} |-> IF f = "_id" THEN id ELSE doc[f]]

\* doc["_id"] = str(doc["_id"])
Stringified(doc) == [doc EXCEPT !._id = ToString(@)]

\* .sort("timestamp", -1): descending; documents with equal timestamps keep
\* their insertion order
RECURSIVE ByStamp(_, _)
ByStamp(docs, stamps) ==
    IF stamps = {} THEN <<>>
    ELSE LET t == CHOOSE x \in stamps : \A y \in stamps : y <= x
             SameStamp(d) == d.timestamp = t
         IN  SelectSeq(docs, SameStamp) \o ByStamp(docs, stamps \ {t})

SortDesc(docs) == ByStamp(docs, {docs[i].timestamp : i \in 1 .. Len(docs)})

Limit(docs, n) == SubSeq(docs, 1, IF Len(docs) <= n THEN Len(docs) ELSE n)

\* variant: find().limit(50) without the sort
get_history_result_unsorted(docs) ==
    LET found == Limit(Limit(docs, HISTORY_LIMIT), HISTORY_LIMIT)
    IN  [i \in 1 .. Len(found) |-> Stringified(found[i])]

\* db.predictions.find().sort("timestamp", -1).limit(50), to_list(length=50)
get_history_result(docs) ==
    LET found == Limit(Limit(SortDesc(docs), HISTORY_LIMIT), HISTORY_LIMIT)
    IN  [i \in 1 .. Len(found) |-> Stringified(found[i])]

\* GET /health
health_check(l) == [status |-> "ok", models_loaded |-> l._loaded]

---------------------------------------------------------------------------
(* State *)

Requests == {"r1"}
\* the requests of the specification with two clients
ConcurrentRequests == {"r1", "r2"}

\* the coordinates a client may post
Coords == {<<12, 77>>, <<28, 84>>}

NoWeather == WeatherRecord(None, None, None, "", "", None, None)
NoHydro == [flow_accumulation |-> None, river_distance |-> None,
            soil_saturation |-> None]
NoCalls == [weather |-> 0, dem |-> 0, gpm |-> 0, open_meteo |-> 0,
            flow_acc |-> 0, river_distance |-> 0, geocoder |-> 0]
NoKinds == [weather |-> <<>>, dem |-> <<>>, gpm |-> <<>>, open_meteo |-> <<>>,
            flow_acc |-> <<>>, river_distance |-> <<>>, geocoder |-> <<>>]
NoData ==
    [lat |-> None, lon |-> None, location_name |-> "", timestamp |-> None,
     rainfall_1h |-> None, rainfall_24h |-> None, rainfall_72h |-> None,
     soil_saturation |-> None, flow_accumulation |-> None,
     river_distance |-> None, soil_ph |-> None, temperature |-> None,
     weather_desc |-> "", weather_icon |-> "", wind_speed |-> None,
     humidity |-> None, pressure |-> None, elevation |-> None,
     slope |-> None, ndvi |-> None, landslide_probability |-> None,
     landslide_risk_level |-> "", flood_probability |-> None,
     flood_risk_level |-> "", warnings |-> <<>>]

\* a request not yet received: predict()'s locals are unbound
Idle ==
    [pc |-> "idle", lat |-> None, lon |-> None,
     weather |-> NoWeather, elevation |-> None, slope |-> None,
     rainfall_gpm_24h |-> None, hydro |-> NoHydro, location_name |-> "",
     total_rainfall_24h |-> None, total_rainfall_72h |-> None,
     landslide_features |-> <<>>, flood_features |-> <<>>,
     landslide_prob |-> None, flood_prob |-> Number(None),
     presented_landslide |-> <<>>, presented_flood |-> <<>>,
     risk_level_landslide |-> "", risk_level_flood |-> "",
     response_data |-> NoData,
     status |-> 0,          \* HTTP status of the answer, 0 while there is none
     save |-> "none",       \* none | scheduled | dropped | doc | invalid |
                            \* inserted | insert_failed | raised (an
                            \* exception left save_prediction_mongo)
     propagated |-> FALSE,  \* an adapter let an exception into predict()
     dev |-> 0,             \* provider calls that deviated so far
     calls |-> NoCalls,     \* provider calls made, per adapter
     kinds |-> NoKinds,     \* how each of those calls ended, per adapter
     steps |-> <<>>]        \* the statements of predict() executed, in order

\* documents written by earlier runs of the service
OldDoc(i) ==
    [lat |-> 12, lon |-> 77, location_name |-> "Unknown Location",
     rainfall_24h |-> 30, slope |-> 31, landslide_prob |-> 29,
     flood_prob |-> 70, risk_level |-> "Low", timestamp |-> (2 * i) % 3,
     _id |-> i]
OldCounts == {HISTORY_LIMIT - 1, HISTORY_LIMIT, HISTORY_LIMIT + 1}

\* no /health answer yet
NoHealth == [status |-> "", models_loaded |-> FALSE]

\* the dashboard before its script runs: nothing clicked, requested or shown.
\* post and hist: how the POST /predict and the GET /history of this run
\* ended ("none": not made); shown: the elements on the page; log: every
\* request sent so far
Closed ==
    [pc |-> "closed", clicks |-> 0, lat |-> None, lon |-> None,
     post |-> "none", data |-> <<>>, hist |-> "none", shown |-> <<>>,
     log |-> <<>>]

\* the process before model_loader.py is imported
Fresh ==
    /\ phase = "import"
    /\ loader = NoInstance
    /\ returned = <<>>
    /\ deserialized = [a \in {"landslide", "flood", "threshold"} |-> 0]
    /\ loadLog = <<>>
    /\ lastResult = [fn |-> "", features |-> <<>>, value |-> Number(None),
                     presented |-> <<>>, models_loaded |-> FALSE]
    /\ req = [r \in Requests |-> Idle]
    /\ tasks = {}
    /\ saving = {}
    /\ history = <<>>
    /\ historyAt = None
    /\ now = 1
    /\ health = NoHealth
    /\ dash = Closed

\* a new deployment: the predictions collection is empty
Init ==
    /\ Fresh
    /\ collection = <<>>
    /\ budget = MaxDeviations

\* a deployment over the collection earlier runs left, every provider nominal
InitHistory ==
    /\ Fresh
    /\ \E n \in OldCounts : collection = [i \in 1 .. n |-> OldDoc(i)]
    /\ budget = 0

\* datetime.utcnow(): not before the previous reading
Utcnow == {now} \cup (IF now < MaxClock THEN {now + 1} ELSE {})

---------------------------------------------------------------------------
(* Process life (model_loader.py line 80, main.py startup_event) *)

DbVars == <<tasks, saving, collection, history, historyAt, now, budget, health, dash>>

CountLoads(loads) ==
    [a \in DOMAIN deserialized |->
        deserialized[a] + (IF \E i \in 1 .. Len(loads) : loads[i] = a THEN 1 ELSE 0)]

\* model_loader = ModelLoader()
import_model_loader ==
    /\ phase = "import"
    /\ loader' = ModelLoader_new(loader)
    /\ returned' = Append(returned, [instance |-> loader'.instance,
                                     loaded |-> loader._loaded])
    /\ phase' = "startup"
    /\ UNCHANGED <<deserialized, loadLog, lastResult, req>>
    /\ UNCHANGED DbVars

\* connect_to_mongo(); model_loader.load_models(); init_earth_engine();
\* scheduler.start()
startup_event ==
    /\ phase = "startup"
    /\ \E failAt \in LoadOutcomes :
          LET res == load_models(loader, failAt)
          IN  /\ loader' = res.loader
              /\ deserialized' = CountLoads(res.loads)
              /\ loadLog' = Append(loadLog, [loaded |-> loader._loaded,
                                             loads |-> res.loads])
    /\ phase' = "serving"
    /\ UNCHANGED <<returned, lastResult, req>>
    /\ UNCHANGED DbVars

---------------------------------------------------------------------------
(* POST /predict (endpoints.py predict), one action per statement group *)

Others == <<phase, loader, returned, deserialized, loadLog, lastResult>>

\* move request r on: bind locals, record the step
Goto(r, label, next, locals) ==
    req' = [req EXCEPT ![r] =
               [f \in DOMAIN req[r] |->
                   IF f = "pc" THEN next
                   ELSE IF f = "steps" THEN Append(req[r].steps, label)
                   ELSE IF f \in DOMAIN locals THEN locals[f]
                   ELSE req[r][f]]]

\* an exception leaves predict(): the framework answers 500
Fail(r, label, locals) ==
    Goto(r, label, "done", locals @@ [status |-> 500])

Within(r, res) == req[r].dev + res.dev <= budget

Called(r, adapter, n) == [req[r].calls EXCEPT ![adapter] = @ + n]

\* of the outcomes offered, those of the n calls the adapter made
Ended(r, adapter, ks, n) == [req[r].kinds EXCEPT ![adapter] = SubSeq(ks, 1, n)]

\* lat, lon = request.lat, request.lon
predict_begin(r) ==
    /\ phase = "serving"
    /\ req[r].pc = "idle"
    /\ \E c \in Coords :
          Goto(r, "begin", "weather", [lat |-> c[1], lon |-> c[2]])
    /\ UNCHANGED Others /\ UNCHANGED DbVars

\* weather = get_weather_data(lat, lon)
predict_weather(r) ==
    /\ req[r].pc = "weather"
    /\ \E o \in WeatherOutcomes :
          LET res == get_weather_data(o)
              calls == Called(r, "weather", res.calls)
              kinds == Ended(r, "weather", <<Kind(o)>>, res.calls)
          IN  /\ Within(r, res)
              /\ IF res.raised
                 THEN Fail(r, "weather", [propagated |-> TRUE, calls |-> calls,
                                          kinds |-> kinds])
                 ELSE Goto(r, "weather", "dem",
                           [weather |-> res.value, calls |-> calls, kinds |-> kinds,
                            dev |-> req[r].dev + res.dev])
    /\ UNCHANGED Others /\ UNCHANGED DbVars

\* elevation, slope = get_elevation_slope(lat, lon)
predict_dem(r) ==
    /\ req[r].pc = "dem"
    /\ \E o1 \in ElevationOutcomes, o2 \in SlopeOutcomes :
          LET res == get_elevation_slope(o1, o2)
              calls == Called(r, "dem", res.calls)
              kinds == Ended(r, "dem", <<Kind(o1), Kind(o2)>>, res.calls)
          IN  /\ Within(r, res)
              /\ IF res.raised
                 THEN Fail(r, "dem", [propagated |-> TRUE, calls |-> calls,
                                      kinds |-> kinds])
                 ELSE Goto(r, "dem", "gpm",
                           [elevation |-> res.value[1], slope |-> res.value[2],
                            calls |-> calls, kinds |-> kinds, dev |-> req[r].dev + res.dev])
    /\ UNCHANGED Others /\ UNCHANGED DbVars

\* rainfall_gpm_24h = get_rainfall_gpm(lat, lon, hours=24)
predict_gpm(r) ==
    /\ req[r].pc = "gpm"
    /\ \E o \in GpmOutcomes :
          LET res == get_rainfall_gpm(o)
              calls == Called(r, "gpm", res.calls)
              kinds == Ended(r, "gpm", <<Kind(o)>>, res.calls)
          IN  /\ Within(r, res)
              /\ IF res.raised
                 THEN Fail(r, "gpm", [propagated |-> TRUE, calls |-> calls,
                                      kinds |-> kinds])
                 ELSE Goto(r, "gpm", "hydro",
                           [rainfall_gpm_24h |-> res.value, calls |-> calls,
                            kinds |-> kinds,
                            dev |-> req[r].dev + res.dev])
    /\ UNCHANGED Others /\ UNCHANGED DbVars

\* hydro = get_hydrological_features(lat, lon)
predict_hydro(r) ==
    /\ req[r].pc = "hydro"
    /\ \E om1 \in DischargeOutcomes, om2 \in SoilOutcomes, fl \in FlowAccOutcomes,
          ds1 \in DistanceOutcomes, ds2 \in Distance2Outcomes :
          LET res == get_hydrological_features(om1, om2, fl, ds1, ds2)
              calls == [req[r].calls EXCEPT !.open_meteo = @ + res.om_calls,
                                            !.flow_acc = @ + 1,
                                            !.river_distance = @ + res.dist_calls]
              kinds == [req[r].kinds EXCEPT
                          !.open_meteo = SubSeq(<<Kind(om1), Kind(om2)>>, 1, res.om_calls),
                          !.flow_acc = <<Kind(fl)>>,
                          !.river_distance = SubSeq(<<Kind(ds1), Kind(ds2)>>, 1, res.dist_calls)]
          IN  /\ Within(r, res)
              /\ IF res.raised
                 THEN Fail(r, "hydro", [propagated |-> TRUE, calls |-> calls,
                                        kinds |-> kinds])
                 ELSE Goto(r, "hydro", "geocode",
                           [hydro |-> res.value, calls |-> calls, kinds |-> kinds,
                            dev |-> req[r].dev + res.dev])
    /\ UNCHANGED Others /\ UNCHANGED DbVars

\* location_name = get_location_name(lat, lon)
predict_geocode(r) ==
    /\ req[r].pc = "geocode"
    /\ \E o \in GeocodeOutcomes :
          LET res == get_location_name(o)
              calls == Called(r, "geocoder", res.calls)
              kinds == Ended(r, "geocoder", <<KindOfName(o)>>, res.calls)
          IN  /\ Within(r, res)
              /\ IF res.raised
                 THEN Fail(r, "geocode", [propagated |-> TRUE, calls |-> calls,
                                          kinds |-> kinds])
                 ELSE Goto(r, "geocode", "features",
                           [location_name |-> res.value, calls |-> calls,
                            kinds |-> kinds,
                            dev |-> req[r].dev + res.dev])
    /\ UNCHANGED Others /\ UNCHANGED DbVars

\* variant: the two rainfall sources added up
total_rainfall_24h_sum(rainfall_gpm_24h, weather) ==
    rainfall_gpm_24h + weather.rainfall_1h * 24

\* max(rainfall_gpm_24h, weather.get("rainfall_1h", 0) * 24)
total_rainfall_24h(rainfall_gpm_24h, weather) ==
    Max(rainfall_gpm_24h, weather.rainfall_1h * 24)

\* total_rainfall_24h * 1.5 (the rainfall amounts of the model are even
\* numbers, so the product is a whole number)
total_rainfall_72h(rain24) == (rain24 * 3) \div 2

landslide_features(q, rain24) ==
    << <<"elevation", q.elevation>>, <<"rainfall", rain24>>,
       <<"soil_ph", SOIL_PH>>, <<"slope", q.slope>> >>

flood_features(q, rain24, rain72) ==
    << <<"lat", q.lat>>, <<"lon", q.lon>>, <<"rain_24h", rain24>>,
       <<"rain_72h", rain72>>,
       <<"soil_saturation",
         DictGet(q.hydro, "soil_saturation", SOIL_SATURATION_FEATURE_DEFAULT)>>,
       <<"elevation", q.elevation>>, <<"slope", q.slope>>,
       <<"flow_accumulation",
         DictGet(q.hydro, "flow_accumulation", FLOW_ACCUMULATION_DEFAULT)>>,
       <<"river_distance",
         DictGet(q.hydro, "river_distance", RIVER_DISTANCE_DEFAULT)>> >>

\* 2. Feature Engineering, and the two feature dicts
predict_features(r) ==
    /\ req[r].pc = "features"
    /\ LET rain24 == total_rainfall_24h(req[r].rainfall_gpm_24h, req[r].weather)
           rain72 == total_rainfall_72h(rain24)
       IN  Goto(r, "features", "landslide",
                [total_rainfall_24h |-> rain24, total_rainfall_72h |-> rain72,
                 landslide_features |-> landslide_features(req[r], rain24),
                 flood_features |-> flood_features(req[r], rain24, rain72)])
    /\ UNCHANGED Others /\ UNCHANGED DbVars

\* landslide_prob, _ = model_loader.predict_landslide(landslide_features)
predict_call_landslide(r) ==
    /\ req[r].pc = "landslide"
    /\ \E out \in ModelOutcomes :
          LET res == predict_landslide(loader, req[r].landslide_features, out)
          IN  IF res.value.shape = "pair"
              THEN Goto(r, "landslide", "flood",
                        [landslide_prob |-> res.value.first,
                         presented_landslide |-> res.presented])
              ELSE Fail(r, "landslide", [landslide_prob |-> None])
    /\ UNCHANGED Others /\ UNCHANGED DbVars

\* flood_prob = model_loader.predict_flood(flood_features)
predict_call_flood(r) ==
    /\ req[r].pc = "flood"
    /\ \E out \in ModelOutcomes :
          LET res == predict_flood(loader, req[r].flood_features, out)
          IN  Goto(r, "flood", "classify",
                   [flood_prob |-> res.value, presented_flood |-> res.presented])
    /\ UNCHANGED Others /\ UNCHANGED DbVars

response_data(q, risk_level_landslide, risk_level_flood, timestamp) ==
    [lat |-> q.lat, lon |-> q.lon, location_name |-> q.location_name,
     timestamp |-> timestamp,
     rainfall_1h |-> q.weather.rainfall_1h,
     rainfall_24h |-> q.total_rainfall_24h,
     rainfall_72h |-> q.total_rainfall_72h,
     soil_saturation |->
        DictGet(q.hydro, "soil_saturation", SOIL_SATURATION_RESPONSE_DEFAULT),
     flow_accumulation |->
        DictGet(q.hydro, "flow_accumulation", FLOW_ACCUMULATION_DEFAULT),
     river_distance |-> DictGet(q.hydro, "river_distance", RIVER_DISTANCE_DEFAULT),
     soil_ph |-> SOIL_PH,
     temperature |-> q.weather.temperature,
     weather_desc |-> q.weather.weather_desc,
     weather_icon |-> q.weather.weather_icon,
     wind_speed |-> q.weather.wind_speed,
     humidity |-> q.weather.humidity,
     pressure |-> q.weather.pressure,
     elevation |-> q.elevation, slope |-> q.slope, ndvi |-> NDVI,
     landslide_probability |-> q.landslide_prob,
     landslide_risk_level |-> risk_level_landslide,
     flood_probability |-> q.flood_prob.first,
     flood_risk_level |-> risk_level_flood,
     warnings |-> <<>>]

\* risk_level_landslide = determine_risk_level(landslide_prob);
\* risk_level_flood = determine_risk_level(flood_prob): comparing a tuple
\* with a float raises TypeError; then response_data = {...}
predict_classify(r) ==
    /\ req[r].pc = "classify"
    /\ IF req[r].flood_prob.shape # "number"
       THEN /\ Fail(r, "classify",
                    [risk_level_landslide |-> determine_risk_level(req[r].landslide_prob)])
            /\ now' = now
       ELSE \E t \in Utcnow :
               LET rl == determine_risk_level(req[r].landslide_prob)
                   rf == determine_risk_level(req[r].flood_prob.first)
               IN  /\ Goto(r, "classify", "schedule",
                           [risk_level_landslide |-> rl, risk_level_flood |-> rf,
                            response_data |-> response_data(req[r], rl, rf, t)])
                   /\ now' = t
    /\ UNCHANGED Others
    /\ UNCHANGED <<tasks, saving, collection, history, historyAt, budget, health, dash>>

\* background_tasks.add_task(save_prediction_mongo, response_data)
predict_schedule(r) ==
    /\ req[r].pc = "schedule"
    /\ tasks' = tasks \cup {[rid |-> r, data |-> req[r].response_data]}
    /\ Goto(r, "schedule", "return", [save |-> "scheduled"])
    /\ UNCHANGED Others
    /\ UNCHANGED <<saving, collection, history, historyAt, now, budget, health, dash>>

\* variant: the answer built without the request's background tasks
predict_return_dropping(r) ==
    /\ req[r].pc = "return"
    /\ IF ValidResponse(req[r].response_data)
       THEN Goto(r, "return", "done", [status |-> 200])
       ELSE Goto(r, "return", "done", [status |-> 500, save |-> "dropped"])
    /\ tasks' = {t \in tasks : t.rid # r}
    /\ UNCHANGED Others
    /\ UNCHANGED <<saving, collection, history, historyAt, now, budget, health, dash>>

\* return response_data: the framework validates it against
\* PredictionResponse and answers 200, or 500 without running the
\* background tasks
predict_return(r) ==
    /\ req[r].pc = "return"
    /\ IF ValidResponse(req[r].response_data)
       THEN /\ Goto(r, "return", "done", [status |-> 200])
            /\ tasks' = tasks
       ELSE /\ Goto(r, "return", "done", [status |-> 500, save |-> "dropped"])
            /\ tasks' = {t \in tasks : t.rid # r}
    /\ UNCHANGED Others
    /\ UNCHANGED <<saving, collection, history, historyAt, now, budget, health, dash>>

---------------------------------------------------------------------------
(* The background task (endpoints.py save_prediction_mongo) and GET /history *)

SetSave(r, what) == req' = [req EXCEPT ![r].save = what]

\* variant: the task awaited where it is added, not after the answer
save_prediction_mongo_doc_inline(t) ==
    /\ t \in tasks
    /\ tasks' = tasks \ {t}
    /\ \E ts \in Utcnow :
          /\ now' = ts
          /\ IF ValidDocument(t.data)
             THEN /\ saving' = saving \cup
                         {[rid |-> t.rid, doc |-> PredictionDocument(t.data, ts)]}
                  /\ SetSave(t.rid, "doc")
             ELSE /\ saving' = saving
                  /\ SetSave(t.rid, "invalid")
    /\ UNCHANGED Others
    /\ UNCHANGED <<collection, history, historyAt, budget, health, dash>>

\* variant: the landslide probability read from a dict the requests share
\* (that of any task still waiting), not from the task's own argument
save_prediction_mongo_doc_shared(t) ==
    /\ t \in tasks
    /\ req[t.rid].status = 200
    /\ tasks' = tasks \ {t}
    /\ \E ts \in Utcnow, u \in tasks :
          LET data == [t.data EXCEPT
                          !.landslide_probability = u.data.landslide_probability]
          IN  /\ now' = ts
              /\ IF ValidDocument(data)
                 THEN /\ saving' = saving \cup
                             {[rid |-> t.rid, doc |-> PredictionDocument(data, ts)]}
                      /\ SetSave(t.rid, "doc")
                 ELSE /\ saving' = saving
                      /\ SetSave(t.rid, "invalid")
    /\ UNCHANGED Others
    /\ UNCHANGED <<collection, history, historyAt, budget, health, dash>>

\* db = get_database(); doc = PredictionDocument(..., timestamp=utcnow());
\* a document that does not validate raises inside the try
save_prediction_mongo_doc(t) ==
    /\ t \in tasks
    /\ req[t.rid].status = 200
    /\ tasks' = tasks \ {t}
    /\ \E ts \in Utcnow :
          /\ now' = ts
          /\ IF ValidDocument(t.data)
             THEN /\ saving' = saving \cup
                         {[rid |-> t.rid, doc |-> PredictionDocument(t.data, ts)]}
                  /\ SetSave(t.rid, "doc")
             ELSE /\ saving' = saving
                  /\ SetSave(t.rid, "invalid")
    /\ UNCHANGED Others
    /\ UNCHANGED <<collection, history, historyAt, budget, health, dash>>

\* variant: insert_one awaited outside the try block
save_prediction_mongo_insert_unguarded(s) ==
    /\ s \in saving
    /\ saving' = saving \ {s}
    /\ \E ok \in BOOLEAN :
          IF ok
          THEN /\ collection' = Append(collection, Stored(s.doc, Len(collection) + 1))
               /\ SetSave(s.rid, "inserted")
          ELSE /\ collection' = collection
               /\ SetSave(s.rid, "raised")
    /\ UNCHANGED Others
    /\ UNCHANGED <<tasks, history, historyAt, now, budget, health, dash>>

\* await db.predictions.insert_one(doc.dict()); except: logger.error.  A
\* database that cannot be reached makes insert_one raise.
save_prediction_mongo_insert(s) ==
    /\ s \in saving
    /\ saving' = saving \ {s}
    /\ \E ok \in BOOLEAN :
          IF ok
          THEN /\ collection' = Append(collection, Stored(s.doc, Len(collection) + 1))
               /\ SetSave(s.rid, "inserted")
          ELSE /\ collection' = collection
               /\ SetSave(s.rid, "insert_failed")
    /\ UNCHANGED Others
    /\ UNCHANGED <<tasks, history, historyAt, now, budget, health, dash>>

\* GET /history
get_history ==
    /\ phase = "serving"
    /\ history' = get_history_result(collection)
    /\ historyAt' = Len(collection)
    /\ UNCHANGED Others
    /\ UNCHANGED <<req, tasks, saving, collection, now, budget, health, dash>>

---------------------------------------------------------------------------
(* The service *)

\* POST /predict for request r, statement by statement
predict(r) ==
    \/ predict_begin(r)
    \/ predict_weather(r)
    \/ predict_dem(r)
    \/ predict_gpm(r)
    \/ predict_hydro(r)
    \/ predict_geocode(r)
    \/ predict_features(r)
    \/ predict_call_landslide(r)
    \/ predict_call_flood(r)
    \/ predict_classify(r)
    \/ predict_schedule(r)
    \/ predict_return(r)

Next ==
    \/ import_model_loader
    \/ startup_event
    \/ \E r \in Requests : predict(r)
    \/ \E t \in tasks : save_prediction_mongo_doc(t)
    \/ \E s \in saving : save_prediction_mongo_insert(s)

Spec == Init /\ [][Next]_vars

\* the service with GET /history, over an existing collection
NextHistory ==
    \/ Next
    \/ get_history

SpecHistory == InitHistory /\ [][NextHistory]_vars

---------------------------------------------------------------------------
(* Two clients post at the same time: predict() is a plain def, so the      *)
(* framework runs each request on a worker thread and their statements     *)
(* interleave; the save tasks run on the event loop.                       *)

\* the service after a startup in which the three artifacts loaded, two
\* requests about to arrive, every provider nominal, the clock at the last
\* reading the model distinguishes
InitConcurrent ==
    /\ phase = "serving"
    /\ loader = load_models(ModelLoader_new(NoInstance), 0).loader
    /\ returned = <<[instance |-> 1, loaded |-> FALSE]>>
    /\ deserialized = [a \in {"landslide", "flood", "threshold"} |-> 1]
    /\ loadLog = <<[loaded |-> FALSE,
                    loads |-> load_models(ModelLoader_new(NoInstance), 0).loads]>>
    /\ lastResult = [fn |-> "", features |-> <<>>, value |-> Number(None),
                     presented |-> <<>>, models_loaded |-> FALSE]
    /\ req = [r \in ConcurrentRequests |-> Idle]
    /\ tasks = {}
    /\ saving = {}
    /\ collection = <<>>
    /\ history = <<>>
    /\ historyAt = None
    /\ now = MaxClock
    /\ budget = 0
    /\ health = NoHealth
    /\ dash = Closed

NextConcurrent ==
    \/ \E r \in ConcurrentRequests : predict(r)
    \/ \E t \in tasks : save_prediction_mongo_doc(t)
    \/ \E s \in saving : save_prediction_mongo_insert(s)

SpecConcurrent == InitConcurrent /\ [][NextConcurrent]_vars

---------------------------------------------------------------------------
(* The dashboard (frontend/dashboard.py): a script the framework runs from  *)
(* top to bottom on every interaction; the gateway is its environment.     *)

\* what POST /predict may answer or do: a prediction with status 200, an
\* error status, a refused connection, another exception (a timeout)
PredictAnswers ==
    {[k |-> "200", data |-> <<p, determine_risk_level(p)>>] : p \in {29, 70}}
    \cup {[k |-> c, data |-> <<>>] : c \in {"500", "422", "connection_error", "exception"}}

\* what GET /history may answer or do: rows, rows without the columns
\* plotted, no rows, an error status, an exception
HistoryAnswers == {"rows", "rows_without_columns", "empty", "500", "exception"}

\* what the dashboard shows for each of them
HistoryElement(o) ==
    IF o = "rows" THEN "history_chart"
    ELSE IF o = "rows_without_columns" THEN "warning_missing_columns"
    ELSE IF o = "empty" THEN "info_no_records"
    ELSE IF o = "500" THEN "warning_could_not_fetch"
    ELSE "error_history_api"

DashVars ==
    <<phase, loader, returned, deserialized, loadLog, lastResult, req, tasks,
      saving, collection, history, historyAt, now, budget, health>>

\* the first run of the script: map_data has no last_clicked
dashboard_open ==
    /\ dash.pc = "closed"
    /\ dash' = [dash EXCEPT !.pc = "waiting", !.shown = <<"info_waiting">>]
    /\ UNCHANGED DashVars

\* a click on the map: the script runs again, the page is drawn anew
dashboard_click ==
    /\ dash.pc \in {"waiting", "shown"}
    /\ dash.clicks < MaxClicks
    /\ \E c \in Coords :
          dash' = [dash EXCEPT !.pc = "post", !.clicks = @ + 1,
                               !.lat = c[1], !.lon = c[2],
                               !.post = "none", !.data = <<>>, !.hist = "none",
                               !.shown = <<"info_analyzing">>]
    /\ UNCHANGED DashVars

\* variant: the answer rendered without the status_code == 200 test
dashboard_post_unchecked ==
    /\ dash.pc = "post"
    /\ \E o \in PredictAnswers :
          LET sent == Append(dash.log, [method |-> "POST", url |-> "predict",
                                        lat |-> dash.lat, lon |-> dash.lon])
          IN  IF o.k \in {"200", "500", "422"}
              THEN dash' = [dash EXCEPT !.pc = "render", !.post = o.k,
                                        !.data = o.data, !.log = sent]
              ELSE dash' = [dash EXCEPT !.pc = "shown", !.post = o.k, !.log = sent,
                               !.shown = Append(@, IF o.k = "connection_error"
                                                   THEN "error_connection"
                                                   ELSE "error_unexpected")]
    /\ UNCHANGED DashVars

\* response = requests.post(API_URL, json=payload, timeout=30); status 200:
\* data = response.json(); otherwise st.error; ConnectionError and any
\* other exception: st.error
dashboard_post ==
    /\ dash.pc = "post"
    /\ \E o \in PredictAnswers :
          LET sent == Append(dash.log, [method |-> "POST", url |-> "predict",
                                        lat |-> dash.lat, lon |-> dash.lon])
          IN  IF o.k = "200"
              THEN dash' = [dash EXCEPT !.pc = "render", !.post = o.k,
                                        !.data = o.data, !.log = sent]
              ELSE dash' = [dash EXCEPT !.pc = "shown", !.post = o.k, !.log = sent,
                               !.shown = Append(@, IF o.k = "connection_error"
                                                   THEN "error_connection"
                                                   ELSE IF o.k = "exception"
                                                   THEN "error_unexpected"
                                                   ELSE "error_prediction_api")]
    /\ UNCHANGED DashVars

\* rows 1 and 2: the risk gauges, the weather card and the metrics grid
dashboard_render ==
    /\ dash.pc = "render"
    /\ dash' = [dash EXCEPT !.pc = "history",
                            !.shown = @ \o <<"risk_gauges", "telemetry">>]
    /\ UNCHANGED DashVars

\* row 3: hist_response = requests.get(HISTORY_URL, ...), in its own try
dashboard_history ==
    /\ dash.pc = "history"
    /\ \E o \in HistoryAnswers :
          dash' = [dash EXCEPT !.pc = "shown", !.hist = o,
                      !.shown = Append(@, HistoryElement(o)),
                      !.log = Append(@, [method |-> "GET", url |-> "history",
                                         lat |-> dash.lat, lon |-> dash.lon])]
    /\ UNCHANGED DashVars

NextDashboard ==
    \/ dashboard_open
    \/ dashboard_click
    \/ dashboard_post
    \/ dashboard_render
    \/ dashboard_history

SpecDashboard == Init /\ [][NextDashboard]_vars

---------------------------------------------------------------------------
(* The ModelLoader class under any sequence of calls by its clients:        *)
(* constructions, load_models calls and direct calls of the two prediction *)
(* entry points.                                                           *)

\* feature dicts a caller may pass: the keys in the documented order, in
\* reverse order, with a foreign key in front, and with one key missing
Reverse(seq) == [i \in 1 .. Len(seq) |-> seq[Len(seq) + 1 - i]]
NominalLocals ==
    [lat |-> 12, lon |-> 77, elevation |-> 100, slope |-> 31,
     hydro |-> [flow_accumulation |-> 7, river_distance |-> 4140,
                soil_saturation |-> 4]]
Variants(features) ==
    {features, Reverse(features), <<(<<"ndvi", NDVI>>)>> \o features,
     Tail(features)}
\* what a model does when an entry point is called directly
DirectOutcomes == {ModelRaises, Proba(70)}
LandslideInputs == Variants(landslide_features(NominalLocals, 48))
FloodInputs == Variants(flood_features(NominalLocals, 48, 72))

\* ModelLoader()
construct ==
    /\ phase # "import"
    /\ Len(returned) < MaxConstructions
    /\ loader' = ModelLoader_new(loader)
    /\ returned' = Append(returned, [instance |-> loader'.instance,
                                     loaded |-> loader._loaded])
    /\ UNCHANGED <<phase, deserialized, loadLog, lastResult, req>>
    /\ UNCHANGED DbVars

\* model_loader.load_models()
call_load_models ==
    /\ phase = "serving"
    /\ Len(loadLog) < MaxLoadCalls
    /\ \E failAt \in LoadOutcomes :
          LET res == load_models(loader, failAt)
          IN  /\ loader' = res.loader
              /\ deserialized' = CountLoads(res.loads)
              /\ loadLog' = Append(loadLog, [loaded |-> loader._loaded,
                                             loads |-> res.loads])
    /\ UNCHANGED <<phase, returned, lastResult, req>>
    /\ UNCHANGED DbVars

\* model_loader.predict_landslide(features)
call_predict_landslide ==
    /\ phase = "serving"
    /\ \E features \in LandslideInputs, out \in DirectOutcomes :
          LET res == predict_landslide(loader, features, out)
          IN  lastResult' = [fn |-> "predict_landslide", features |-> features,
                             value |-> res.value, presented |-> res.presented,
                             models_loaded |-> health_check(loader).models_loaded]
    /\ UNCHANGED <<phase, loader, returned, deserialized, loadLog, req>>
    /\ UNCHANGED DbVars

\* model_loader.predict_flood(features)
call_predict_flood ==
    /\ phase = "serving"
    /\ \E features \in FloodInputs, out \in DirectOutcomes :
          LET res == predict_flood(loader, features, out)
          IN  lastResult' = [fn |-> "predict_flood", features |-> features,
                             value |-> res.value, presented |-> res.presented,
                             models_loaded |-> health_check(loader).models_loaded]
    /\ UNCHANGED <<phase, loader, returned, deserialized, loadLog, req>>
    /\ UNCHANGED DbVars

\* GET /health
call_health_check ==
    /\ phase = "serving"
    /\ health' = health_check(loader)
    /\ UNCHANGED <<phase, loader, returned, deserialized, loadLog, lastResult, req>>
    /\ UNCHANGED <<tasks, saving, collection, history, historyAt, now, budget, dash>>

NextLoader ==
    \/ import_model_loader
    \/ startup_event
    \/ construct
    \/ call_load_models
    \/ call_health_check
    \/ call_predict_landslide
    \/ call_predict_flood

SpecLoader == Init /\ [][NextLoader]_vars

---------------------------------------------------------------------------
(* Properties *)

Did(r, label) == \E i \in 1 .. Len(req[r].steps) : req[r].steps[i] = label
Failed(r, adapter) ==
    \E i \in 1 .. Len(req[r].kinds[adapter]) :
        req[r].kinds[adapter][i] \in {"raise", "non200"}
Names(frame) == [i \in 1 .. Len(frame) |-> frame[i][1]]
Values(frame) == [i \in 1 .. Len(frame) |-> frame[i][2]]

IsBucket(p, level) ==
    /\ level \in {"Low", "Medium", "High"}
    /\ (level = "Low") = (p < 30)
    /\ (level = "Medium") = (30 <= p /\ p < 70)
    /\ (level = "High") = (p >= 70)

\* C1: determine_risk_level maps every probability to exactly one bucket,
\* Low below 0.3, Medium from 0.3 up to but not including 0.7, High from 0.7
\* on, and both risk levels of every /predict answer are that bucket of the
\* answer's own probabilities.
C1_RiskLevels ==
    /\ \A p \in 0 .. 100 : IsBucket(p, determine_risk_level(p))
    /\ \A r \in Requests :
          req[r].status = 200 =>
             LET d == req[r].response_data
             IN  /\ IsBucket(d.landslide_probability, d.landslide_risk_level)
                 /\ IsBucket(d.flood_probability, d.flood_risk_level)

\* an answer with a probability on each threshold
C1_Witness ==
    \E r \in Requests :
       /\ req[r].status = 200
       /\ req[r].response_data.landslide_probability = 30
       /\ req[r].response_data.landslide_risk_level = "Medium"
       /\ req[r].response_data.flood_probability = 70
       /\ req[r].response_data.flood_risk_level = "High"

\* C2: an adapter whose provider call failed hands predict() its fallback
\* ((0.0, 0.0), 0.0, zero discharge and soil moisture, 5000.0, the all-zero
\* weather record, "Unknown Location"), and no exception of an adapter
\* reaches predict().
C2_Fallbacks ==
    \A r \in Requests :
       /\ ~req[r].propagated
       /\ Failed(r, "weather") =>
             /\ req[r].weather.weather_desc \in {"Error", "N/A"}
             /\ req[r].weather =
                   WeatherRecord(0, 0, 0, req[r].weather.weather_desc, "", 0, 0)
       /\ Failed(r, "dem") => req[r].elevation = 0 /\ req[r].slope = 0
       /\ Failed(r, "gpm") => req[r].rainfall_gpm_24h = 0
       /\ Failed(r, "open_meteo") =>
             /\ req[r].hydro.soil_saturation = 0
             /\ Failed(r, "flow_acc") => req[r].hydro.flow_accumulation = 0
       /\ Failed(r, "river_distance") => req[r].hydro.river_distance = 5000
       /\ Failed(r, "geocoder") => req[r].location_name = "Unknown Location"

\* a request answered 200 although the terrain lookup raised
C2_Witness ==
    \E r \in Requests :
       /\ Failed(r, "dem")
       /\ req[r].status = 200
       /\ req[r].response_data.elevation = 0
       /\ req[r].response_data.slope = 0

Recorded(r) ==
    \E i \in 1 .. Len(collection) :
       collection[i] =
          Stored(PredictionDocument(req[r].response_data, collection[i].timestamp), i)

\* C3 as claimed: once a request was answered and its save task is over, a
\* document for the prediction is in the collection.
C3_EveryResponseRecorded ==
    \A r \in Requests :
       (req[r].status = 200 /\ req[r].save \notin {"scheduled", "doc"}) => Recorded(r)

\* C3: for a request answered 200, the save task stays pending until it runs,
\* and when it is over the prediction's document is in the collection (once)
\* unless insert_one failed, and then the collection is as before.
C3_RecordedUnlessInsertFails ==
    \A r \in Requests :
       req[r].status = 200 =>
          /\ req[r].save \in {"scheduled", "doc", "inserted", "insert_failed"}
          /\ req[r].save = "scheduled" =>
                [rid |-> r, data |-> req[r].response_data] \in tasks
          /\ req[r].save = "doc" =>
                \E s \in saving :
                   /\ s.rid = r
                   /\ s.doc = PredictionDocument(req[r].response_data, s.doc.timestamp)
          /\ req[r].save = "inserted" <=> Recorded(r)
          /\ req[r].save = "inserted" => Len(collection) = 1
          /\ req[r].save = "insert_failed" => collection = <<>>

C3_Witness ==
    \E r \in Requests :
       req[r].status = 200 /\ req[r].save = "inserted" /\ Recorded(r)

\* C4: GET /history answers min(50, n) documents of the n in the collection,
\* in descending timestamp order, each a document of the collection (its _id
\* as a string) and none twice, and no document left out is newer than one
\* answered.
C4_History ==
    historyAt # None =>
       LET docs == SubSeq(collection, 1, historyAt)
           n == Len(docs)
           m == Len(history)
       IN  /\ m = IF n <= 50 THEN n ELSE 50
           /\ \A i \in 1 .. m - 1 : history[i].timestamp >= history[i + 1].timestamp
           /\ \A i \in 1 .. m :
                 \E j \in 1 .. n :
                    history[i] = [docs[j] EXCEPT !._id = ToString(docs[j]._id)]
           /\ \A i, k \in 1 .. m : i # k => history[i]._id # history[k]._id
           /\ \A j \in 1 .. n :
                 (\A i \in 1 .. m : history[i]._id # ToString(docs[j]._id)) =>
                    \A i \in 1 .. m : history[i].timestamp >= docs[j].timestamp

\* more than 50 documents, the newest of them answered and an older one left out
C4_Witness ==
    /\ historyAt > 50
    /\ Len(history) = 50
    /\ \E i \in 1 .. Len(history) : history[i]._id = ToString(historyAt)

\* the same dict with its keys in other orders, or with a foreign key
Shuffles(features) ==
    {features, Reverse(features), Tail(features) \o <<Head(features)>>,
     <<(<<"ndvi", NDVI>>)>> \o features, Append(features, <<"ndvi", NDVI>>)}

PresentsInOrder(res, features, order) ==
    res.presented # <<>> =>
       /\ Names(res.presented) = order
       /\ \A i \in 1 .. Len(order) :
             \E j \in 1 .. Len(features) :
                features[j] = <<order[i], res.presented[i][2]>>

\* C5: the feature records predict() builds hold exactly the four and the
\* nine expected keys; the landslide model is given elevation, rainfall,
\* soil_ph, slope and the flood model lat, lon, rain_24h, rain_72h,
\* soil_saturation, elevation, slope, flow_accumulation, river_distance, in
\* that order and with the request's values, and the entry points present
\* that same frame for the same dict in any key order or with foreign keys.
C5_FeatureOrder ==
    \A r \in Requests :
       LET q == req[r]
           lorder == <<"elevation", "rainfall", "soil_ph", "slope">>
           forder == <<"lat", "lon", "rain_24h", "rain_72h", "soil_saturation",
                       "elevation", "slope", "flow_accumulation", "river_distance">>
       IN  /\ Did(r, "features") =>
                /\ Names(q.landslide_features) = lorder
                /\ Len(q.flood_features) = 9
                /\ Keys(q.flood_features) = {forder[i] : i \in 1 .. 9}
                /\ \A v \in Shuffles(q.landslide_features), out \in ModelOutcomes :
                      PresentsInOrder(predict_landslide(loader, v, out), v, lorder)
                /\ \A v \in Shuffles(q.flood_features), out \in ModelOutcomes :
                      PresentsInOrder(predict_flood(loader, v, out), v, forder)
           /\ (Did(r, "landslide") /\ q.presented_landslide # <<>>) =>
                /\ Names(q.presented_landslide) = lorder
                /\ Values(q.presented_landslide) =
                      <<q.elevation, q.total_rainfall_24h, 65, q.slope>>
           /\ (Did(r, "flood") /\ q.presented_flood # <<>>) =>
                /\ Names(q.presented_flood) = forder
                /\ Values(q.presented_flood) =
                      <<q.lat, q.lon, q.total_rainfall_24h, q.total_rainfall_72h,
                        q.hydro.soil_saturation, q.elevation, q.slope,
                        q.hydro.flow_accumulation, q.hydro.river_distance>>

\* both models were given a frame
C5_Witness ==
    \E r \in Requests :
       /\ req[r].presented_landslide # <<>>
       /\ req[r].presented_flood # <<>>
       /\ req[r].status = 200

\* C6 as claimed: no artifact is deserialized more than once, whatever the
\* sequence of load_models calls.
C6_AtMostOnce == \A a \in DOMAIN deserialized : deserialized[a] <= 1

\* C6: a load_models call made once _loaded holds deserializes nothing and
\* changes nothing; a call deserializes each artifact at most once; the
\* threshold is deserialized at most once in all, and an artifact no more
\* often than load_models was called (a call after a failed load starts over).
C6_LoadedOnce ==
    /\ [](/\ deserialized["threshold"] <= 1
          /\ \A a \in DOMAIN deserialized : deserialized[a] <= Len(loadLog)
          /\ \A i \in 1 .. Len(loadLog) :
                /\ loadLog[i].loaded => loadLog[i].loads = <<>>
                /\ \A j, k \in 1 .. Len(loadLog[i].loads) :
                      j # k => loadLog[i].loads[j] # loadLog[i].loads[k]
          /\ loader._loaded =>
                \A a \in DOMAIN deserialized : deserialized[a] >= 1)
    /\ [][(loader._loaded /\ Len(loadLog') > Len(loadLog)) =>
             (loader' = loader /\ deserialized' = deserialized)]_vars

\* load_models was called after a completed load
C6_Witness ==
    /\ loader._loaded
    /\ \E i \in 1 .. Len(loadLog) : loadLog[i].loaded
    /\ \A a \in DOMAIN deserialized : deserialized[a] = 1

\* C7: every ModelLoader() returns the one instance, and a construction
\* leaves landslide_model, flood_model, threshold and _loaded as they were
\* (the first one, which makes the instance, apart).
C7_Singleton ==
    /\ [](\A i \in 1 .. Len(returned) :
             /\ returned[i].instance = returned[1].instance
             /\ returned[i].instance = loader.instance)
    /\ [][(Len(returned') > Len(returned) /\ Len(returned) >= 1) =>
             loader' = loader]_vars

\* constructed again after the models were loaded, and they still are
C7_Witness ==
    /\ \E i \in 1 .. Len(returned) : returned[i].loaded
    /\ loader._loaded
    /\ loader.landslide_model # "None"
    /\ loader.flood_model # "None"
    /\ loader.threshold # "None"

IsPrefix(a, b) == Len(a) <= Len(b) /\ a = SubSeq(b, 1, Len(a))

\* C8: predict() runs its steps in the order fetches (weather, terrain,
\* rainfall, hydrology, geocoder), feature records, landslide model, flood
\* model, classification, scheduling of the save task, return; the save task
\* of a request does not touch the database before both probabilities are
\* computed, and the answer is returned while the insert has not happened.
C8_Order ==
    \A r \in Requests :
       /\ IsPrefix(req[r].steps,
                   <<"begin", "weather", "dem", "gpm", "hydro", "geocode",
                     "features", "landslide", "flood", "classify", "schedule",
                     "return">>)
       /\ req[r].save \in {"doc", "invalid", "inserted", "insert_failed"} =>
             /\ Did(r, "landslide") /\ Did(r, "flood") /\ Did(r, "classify")
             /\ req[r].landslide_prob # None
             /\ req[r].flood_prob.first # None
       /\ req[r].save # "none" => Did(r, "schedule")
       /\ req[r].pc = "return" => req[r].save = "scheduled"

\* the answer is out and the document is not yet inserted
C8_Witness ==
    \E r \in Requests :
       /\ req[r].status = 200
       /\ req[r].save = "scheduled"
       /\ collection = <<>>

Invoked(r, adapter) == req[r].kinds[adapter] # <<>>

\* C9 as claimed: every adapter makes exactly one provider call per
\* invocation.
C9_OneCallEach ==
    \A r \in Requests :
       \A a \in {"weather", "dem", "gpm", "open_meteo", "river_distance", "geocoder"} :
          Invoked(r, a) => req[r].calls[a] = 1

\* C9: get_weather_data, get_rainfall_gpm and get_location_name make exactly
\* one provider call whatever its outcome; get_elevation_slope and
\* get_open_meteo_flood_data make two, the second only if the first did not
\* raise; get_ee_river_distance makes one, and a second only if the first
\* answered without a distance.
C9_CallCounts ==
    \A r \in Requests :
       LET c == req[r].calls
           k == req[r].kinds
       IN  /\ \A a \in DOMAIN c : c[a] = Len(k[a])
           /\ \A a \in {"weather", "gpm", "geocoder"} : Invoked(r, a) => c[a] = 1
           /\ \A a \in {"dem", "open_meteo"} :
                 Invoked(r, a) => c[a] = IF k[a][1] = "raise" THEN 1 ELSE 2
           /\ Invoked(r, "river_distance") =>
                 c.river_distance = IF k.river_distance[1] = "none" THEN 2 ELSE 1

\* one request in which the distance lookup needed its second call
C9_Witness ==
    \E r \in Requests :
       /\ req[r].status = 200
       /\ req[r].calls.weather = 1
       /\ req[r].calls.dem = 2
       /\ req[r].calls.open_meteo = 2
       /\ req[r].calls.river_distance = 2

\* C10 as claimed: when the artifacts failed to load, a request (here with
\* every provider nominal) is answered, with both probabilities 0.0 and both
\* risk levels Low.
C10_PredictWithoutModels ==
    \A r \in Requests :
       (~loader._loaded /\ req[r].pc = "done" /\ req[r].dev = 0) =>
          /\ req[r].status = 200
          /\ req[r].response_data.landslide_probability = 0
          /\ req[r].response_data.flood_probability = 0
          /\ req[r].response_data.landslide_risk_level = "Low"
          /\ req[r].response_data.flood_risk_level = "Low"

\* the environmental values of a request's feature records
EnvFeatures(r) ==
    {Get(req[r].landslide_features, k) : k \in {"elevation", "rainfall", "slope"}}
    \cup {Get(req[r].flood_features, k) :
            k \in {"rain_24h", "rain_72h", "soil_saturation", "elevation",
                   "slope", "flow_accumulation", "river_distance"}}

\* C11 as claimed: whatever the providers answer, the environmental values
\* of the feature records and of the response are numbers, never null, and
\* the request (the models being loaded) is answered 200 with a valid
\* PredictionResponse.
C11_NoNulls ==
    \A r \in Requests :
       /\ Did(r, "features") => None \notin EnvFeatures(r)
       /\ (Did(r, "classify") /\ req[r].pc # "done") =>
             ValidResponse(req[r].response_data)
       /\ (loader._loaded /\ req[r].pc = "done") => req[r].status = 200

SaveFailed(q) == q.save \in {"invalid", "insert_failed", "raised"}

\* C12: a save that fails (the document does not validate, insert_one
\* raises because of the database or the insert) ends inside the background
\* task: no exception leaves save_prediction_mongo, the request stays
\* answered 200 with the response_data composed before, and the step that
\* fails leaves the predictions collection as it was.
C12_SaveFailureConfined ==
    /\ [](\A r \in Requests :
             /\ req[r].save # "raised"
             /\ SaveFailed(req[r]) => req[r].status = 200)
    /\ [][\A r \in Requests :
             (SaveFailed(req'[r]) /\ ~SaveFailed(req[r])) =>
                /\ collection' = collection
                /\ req'[r].response_data = req[r].response_data
                /\ req'[r].status = req[r].status]_vars

\* insert_one failed for a request that was answered
C12_Witness ==
    \E r \in Requests :
       /\ req[r].save = "insert_failed"
       /\ req[r].status = 200
       /\ ValidResponse(req[r].response_data)
       /\ collection = <<>>

AllLoaded(l) ==
    l.landslide_model # "None" /\ l.flood_model # "None" /\ l.threshold # "None"

\* C13: whenever _loaded holds, and whenever /health has answered
\* models_loaded = true, the landslide model, the flood model and the
\* threshold are all three loaded (each deserialized at least once).
C13_LoadedImpliesAll ==
    /\ loader._loaded =>
          /\ AllLoaded(loader)
          /\ \A a \in DOMAIN deserialized : deserialized[a] >= 1
    /\ health_check(loader).models_loaded = loader._loaded
    /\ health.models_loaded => (health.status = "ok" /\ AllLoaded(loader))

\* /health answered models_loaded = true after a load that had failed once
C13_Witness ==
    /\ health.status = "ok"
    /\ health.models_loaded
    /\ loader._loaded
    /\ \E i \in 1 .. Len(loadLog) :
          ~loadLog[i].loaded /\ Len(loadLog[i].loads) < 3

\* C14 as claimed: a prediction entry point called while /health reports
\* models_loaded = false uses no model and returns the probability 0.0
\* not-loaded fallback.
C14_AllOrNothing ==
    (lastResult.fn # "" /\ ~lastResult.models_loaded) =>
       /\ lastResult.presented = <<>>
       /\ lastResult.value.first = 0
       /\ lastResult.value.second = "Model not loaded"

\* C15: the 24-hour rainfall of a request is the larger of the GPM 24-hour
\* accumulation and 24 times the 1-hour weather rainfall, the 72-hour
\* rainfall is 1.5 times it, so rainfall_72h >= rainfall_24h >= GPM >= 0, and
\* that one 24-hour value is the landslide 'rainfall' feature, the flood
\* 'rain_24h' feature and the response's rainfall_24h.
C15_Rainfall ==
    \A r \in Requests :
       LET q == req[r]
           gpm == q.rainfall_gpm_24h
           hourly == q.weather.rainfall_1h * 24
       IN  /\ Did(r, "features") =>
                /\ q.total_rainfall_24h = (IF gpm >= hourly THEN gpm ELSE hourly)
                /\ q.total_rainfall_24h >= gpm /\ q.total_rainfall_24h >= hourly
                /\ 2 * q.total_rainfall_72h = 3 * q.total_rainfall_24h
                /\ q.total_rainfall_72h >= q.total_rainfall_24h
                /\ gpm >= 0
                /\ Get(q.landslide_features, "rainfall") = q.total_rainfall_24h
                /\ Get(q.flood_features, "rain_24h") = q.total_rainfall_24h
                /\ Get(q.flood_features, "rain_72h") = q.total_rainfall_72h
           /\ Did(r, "schedule") =>
                /\ q.response_data.rainfall_24h = q.total_rainfall_24h
                /\ q.response_data.rainfall_72h = q.total_rainfall_72h

\* an answer in which the weather rainfall is the larger source
C15_Witness ==
    \E r \in Requests :
       /\ req[r].status = 200
       /\ req[r].rainfall_gpm_24h = 30
       /\ req[r].weather.rainfall_1h = 2
       /\ req[r].response_data.rainfall_24h = 48
       /\ req[r].response_data.rainfall_72h = 72

\* the value a frame given to a model holds for a key, or the value
\* expected when no frame was given
Fed(frame, key, expected) == IF frame = <<>> THEN expected ELSE Get(frame, key)

\* C16: every environmental value of a composed response (elevation, slope,
\* rainfall_24h, rainfall_72h, soil_saturation, flow_accumulation,
\* river_distance, soil_ph) is the value of that feature in the feature
\* records of the same request and in the frames given to the models; the
\* soil_saturation of the response is the one given to the flood model.
C16_ResponseEqualsFeatures ==
    \A r \in Requests :
       Did(r, "schedule") =>
          LET d == req[r].response_data
              lf == req[r].landslide_features
              ff == req[r].flood_features
              pl == req[r].presented_landslide
              pf == req[r].presented_flood
              SameL(field, key) ==
                  d[field] = Get(lf, key) /\ d[field] = Fed(pl, key, d[field])
              SameF(field, key) ==
                  d[field] = Get(ff, key) /\ d[field] = Fed(pf, key, d[field])
          IN  /\ SameL("elevation", "elevation") /\ SameF("elevation", "elevation")
              /\ SameL("slope", "slope") /\ SameF("slope", "slope")
              /\ SameL("rainfall_24h", "rainfall") /\ SameF("rainfall_24h", "rain_24h")
              /\ SameF("rainfall_72h", "rain_72h")
              /\ SameF("soil_saturation", "soil_saturation")
              /\ SameF("flow_accumulation", "flow_accumulation")
              /\ SameF("river_distance", "river_distance")
              /\ SameL("soil_ph", "soil_ph")

\* an answer whose soil saturation is the one the flood model was given
C16_Witness ==
    \E r \in Requests :
       /\ req[r].status = 200
       /\ req[r].presented_flood # <<>>
       /\ req[r].presented_landslide # <<>>
       /\ Get(req[r].presented_flood, "soil_saturation") = 4
       /\ req[r].response_data.soil_saturation = 4

\* document doc holds the fields of the response composed for request r
CopiesResponse(doc, r) ==
    LET d == req[r].response_data
    IN  /\ req[r].status = 200
        /\ doc.lat = d.lat /\ doc.lon = d.lon
        /\ doc.location_name = d.location_name
        /\ doc.rainfall_24h = d.rainfall_24h /\ doc.slope = d.slope
        /\ doc.landslide_prob = d.landslide_probability
        /\ doc.flood_prob = d.flood_probability
        /\ doc.risk_level = d.landslide_risk_level

\* C17: with two requests served at the same time, every document of the
\* predictions collection copies the response of one request (lat, lon,
\* location_name, rainfall_24h, slope, landslide_prob, flood_prob), its
\* risk_level is the risk bucket of its own landslide_prob, and no two
\* documents are those of the same request.
C17_DocumentCopiesResponse ==
    /\ \A i \in 1 .. Len(collection) :
          /\ \E r \in DOMAIN req : CopiesResponse(collection[i], r)
          /\ collection[i].risk_level =
                determine_risk_level(collection[i].landslide_prob)
    /\ Len(collection) <= Cardinality({r \in DOMAIN req : req[r].save = "inserted"})
    /\ \A r \in DOMAIN req :
          req[r].save = "inserted" =>
             \E i \in 1 .. Len(collection) : CopiesResponse(collection[i], r)

\* two requests that overlapped left two different documents
C17_Witness ==
    /\ Len(collection) = 2
    /\ collection[1].lat # collection[2].lat
    /\ collection[1].risk_level # collection[2].risk_level
    /\ collection[1].flood_prob # collection[2].flood_prob
    /\ \A r \in DOMAIN req : req[r].save = "inserted"

Shows(element) == \E i \in 1 .. Len(dash.shown) : dash.shown[i] = element

\* C18: the dashboard sends GET /history only after the POST /predict of
\* the same run, for the clicked coordinate, was answered 200 and the
\* prediction was rendered; after another status, a refused connection or
\* another exception it shows an error and sends no history request; and a
\* history request that fails or is answered another status is reported
\* while the prediction rendered before stays on the page.
C18_DashboardFlow ==
    /\ [](/\ \A i \in 1 .. Len(dash.log) :
                dash.log[i].url = "history" =>
                   /\ i > 1
                   /\ dash.log[i - 1].url = "predict"
                   /\ dash.log[i - 1].lat = dash.log[i].lat
                   /\ dash.log[i - 1].lon = dash.log[i].lon
          /\ dash.hist # "none" =>
                /\ dash.post = "200"
                /\ Shows("risk_gauges") /\ Shows("telemetry")
                /\ dash.log[Len(dash.log)].url = "history"
                /\ dash.log[Len(dash.log)].lat = dash.lat
                /\ dash.log[Len(dash.log)].lon = dash.lon
          /\ dash.post \notin {"none", "200"} =>
                /\ dash.pc = "shown"
                /\ dash.hist = "none"
                /\ dash.log[Len(dash.log)].url = "predict"
                /\ ~Shows("risk_gauges")
                /\ Shows(IF dash.post = "connection_error" THEN "error_connection"
                         ELSE IF dash.post = "exception" THEN "error_unexpected"
                         ELSE "error_prediction_api")
          /\ dash.hist \in {"500", "exception"} =>
                Shows(IF dash.hist = "500" THEN "warning_could_not_fetch"
                      ELSE "error_history_api"))
    /\ [][dash.pc = "history" =>
             /\ IsPrefix(dash.shown, dash'.shown)
             /\ dash'.data = dash.data
             /\ dash'.post = dash.post]_vars

\* after a click whose prediction failed, a second click whose prediction
\* was drawn and whose history request failed
C18_Witness ==
    /\ dash.clicks = 2
    /\ dash.post = "200"
    /\ dash.hist = "exception"
    /\ Shows("risk_gauges")
    /\ Shows("error_history_api")
    /\ \E i \in 1 .. Len(dash.log) :
          /\ dash.log[i].url = "predict"
          /\ i < Len(dash.log) => dash.log[i + 1].url = "predict"

=============================================================================
